---------------------------- MODULE Spec2Model ----------------------------
(***************************************************************************)
(* Docker Desktop direct download links: the scrape / update / generate /  *)
(* verify pipeline of docker_guids.py and of its earlier revision          *)
(* docker_release_scraper.py, as a state machine over the four YAML files  *)
(* the tool reads and writes.                                              *)
(*                                                                         *)
(* A Python dict is an ordered mapping: a sequence of items [k, v] with    *)
(* pairwise distinct keys, in insertion order.                             *)
(***************************************************************************)
EXTENDS Integers, Sequences, FiniteSets, TLC

(***************************************************************************)
(* Bounds of the model.                                                    *)
(***************************************************************************)
MaxSections == 3        \* h2 release sections on a release-notes page

(***************************************************************************)
(* Python dict and list primitives.                                        *)
(***************************************************************************)
Item(key, value) == [k |-> key, v |-> value]

Keys(d) == {d[i].k : i \in DOMAIN d}

KeySeq(d) == [i \in DOMAIN d |-> d[i].k]

Has(d, key) == \E i \in DOMAIN d : d[i].k = key

Get(d, key) == d[CHOOSE i \in DOMAIN d : d[i].k = key].v

\* d[key] = value: an existing key keeps its position, a new key is appended
DictSet(d, key, value) ==
    IF Has(d, key)
    THEN [i \in DOMAIN d |-> IF d[i].k = key THEN Item(key, value) ELSE d[i]]
    ELSE Append(d, Item(key, value))

RECURSIVE DictUpdate(_, _)
\* {**d, **items}, and dict(items) when d is empty
DictUpdate(d, items) ==
    IF items = <<>> THEN d
    ELSE DictUpdate(DictSet(d, Head(items).k, Head(items).v), Tail(items))

Dict(items) == DictUpdate(<<>>, items)

Reversed(s) == [i \in 1..Len(s) |-> s[Len(s) + 1 - i]]

\* {k: v for k, v in d.items() if keep(k)}: the sub-sequence at the kept positions
RECURSIVE Filter(_, _)
Filter(d, kept) ==
    IF d = <<>> THEN <<>>
    ELSE (IF Head(d).k \in kept THEN <<Head(d)>> ELSE <<>>) \o Filter(Tail(d), kept)

IsDict(d) == \A i, j \in DOMAIN d : d[i].k = d[j].k => i = j

(***************************************************************************)
(* The release-notes page.  A page is the sequence of its h2 elements in   *)
(* document order; each carries its text and the elements that             *)
(* find_next_sibling() reaches from it (none, one or two of them).  An     *)
(* anchor is its href, split into the parts GUID_REGEX looks at.           *)
(***************************************************************************)
VersionLabels == <<"4.0.0", "4.1.0">>

Versions == {VersionLabels[i] : i \in DOMAIN VersionLabels}

Href(host, segments, digits) == [host |-> host, segments |-> segments, digits |-> digits]

DownloadLink(n) == Href("desktop.docker.com", 3, n)

\* a link to the documentation, and a desktop link one path segment short
DocsLink == Href("docs.docker.com", 3, 1)

ShortLink == Href("desktop.docker.com", 2, 2)

Paragraph(text) == [name |-> "p", text |-> text, anchors |-> <<>>]

Blockquote(anchors) == [name |-> "blockquote", text |-> "Download", anchors |-> anchors]

\* what may follow an h2: nothing; a date and a paragraph; a date and a blockquote
\* whose anchors hold one download link, a zero identifier, no download link, or
\* two download links behind other links
SiblingLists ==
    {<<>>,
     <<Paragraph("2021-08-31"), Paragraph("New")>>,
     <<Paragraph("2021-08-31"), Blockquote(<<DownloadLink(1)>>)>>,
     <<Paragraph("2021-09-30"), Blockquote(<<DownloadLink(2)>>)>>,
     <<Paragraph("2021-08-31"), Blockquote(<<DownloadLink(0)>>)>>,
     <<Paragraph("2021-09-30"), Blockquote(<<DocsLink, ShortLink>>)>>,
     <<Paragraph("2021-09-30"),
       Blockquote(<<DocsLink, ShortLink, DownloadLink(2), DownloadLink(1)>>)>>}

\* the release notes give "4.0.0" either of two identifiers and "4.1.0" one
Sections ==
    [version : {"4.0.0"}, siblings : SiblingLists]
    \cup [version : {"4.1.0"},
          siblings : SiblingLists
                     \ {<<Paragraph("2021-08-31"), Blockquote(<<DownloadLink(1)>>)>>}]

Pages == UNION {[1..n -> Sections] : n \in 0..MaxSections}

(***************************************************************************)
(* get_available_guids / fetch_available_guids                             *)
(***************************************************************************)
\* re.search(GUID_REGEX, link): the host, exactly three path segments, then digits
GuidRegexMatches(link) == link.host = "desktop.docker.com" /\ link.segments = 3

RECURSIVE ExtractVersionGuid(_)
\* the first anchor that matches decides; None when no anchor matches
ExtractVersionGuid(anchors) ==
    IF anchors = <<>> THEN [found |-> FALSE, guid |-> 0]
    ELSE IF GuidRegexMatches(Head(anchors))
         THEN [found |-> TRUE, guid |-> Head(anchors).digits]
         ELSE ExtractVersionGuid(Tail(anchors))

\* title.find_next_sibling() or its find_next_sibling() is None: AttributeError
RaisesAttributeError(title) == Len(title.siblings) < 2

\* `if guid:` in the source: None and 0 are both falsy
Truthy(g) == g.found /\ g.guid # 0

\* the section passes the blockquote test and yields a truthy identifier
Qualifies(title) ==
    /\ title.siblings[2].name = "blockquote"
    /\ Truthy(ExtractVersionGuid(title.siblings[2].anchors))

ReleaseEntry(title) ==
    [guid |-> ExtractVersionGuid(title.siblings[2].anchors).guid,
     release_date |-> title.siblings[1].text]

RECURSIVE GuidList(_)
\* the list `guids` the loop over the h2 elements appends to
GuidList(content) ==
    IF content = <<>> THEN <<>>
    ELSE (IF Qualifies(Head(content))
          THEN <<Item(Head(content).version, ReleaseEntry(Head(content)))>>
          ELSE <<>>) \o GuidList(Tail(content))

ScrapeRaises(content) == \E i \in DOMAIN content : RaisesAttributeError(content[i])

\* a variant that keeps the page order
GetAvailableGuidsInPageOrder(content) == Dict(GuidList(content))

\* dict(reversed(guids))
GetAvailableGuids(content) == Dict(Reversed(GuidList(content)))

\* what one GET of the release-notes page can lead to: the scrape raises, or it
\* returns a mapping
ScrapeResults ==
    {[raised |-> ScrapeRaises(c),
      guids |-> IF ScrapeRaises(c) THEN <<>> ELSE GetAvailableGuids(c)] : c \in Pages}

(***************************************************************************)
(* load_yaml / save_yaml.  A file is absent or holds one YAML document.    *)
(***************************************************************************)
NoFile == [exists |-> FALSE, doc |-> [style |-> "none", items |-> <<>>]]

\* yaml.dump(data, default_flow_style=False, sort_keys=False): an empty mapping
\* is written as the flow document {}, any other as a block mapping with one
\* line per item, in insertion order
YamlDump(data) ==
    IF data = <<>> THEN [style |-> "flow", items |-> <<>>]
    ELSE [style |-> "block", items |-> data]

\* yaml.safe_load(file) or {}
YamlSafeLoad(doc) == IF doc.style = "block" THEN doc.items ELSE <<>>

LoadYaml(file) == IF file.exists THEN YamlSafeLoad(file.doc) ELSE <<>>

SaveYaml(data) == [exists |-> TRUE, doc |-> YamlDump(data)]

GuidsPath == "utils/guids.yaml"
UrlsPath == "utils/urls.yaml"
ResourcesPath == "utils/resources.yaml"
DockerDesktopPath == "DockerDesktop.yaml"

(***************************************************************************)
(* update_guids_database / update_guid_database, after the scrape          *)
(***************************************************************************)
\* a variant that takes every scraped entry as new
NewGuidsUnfiltered(guids, existing_guids) == guids

\* new_guids = {k: v for k, v in guids.items() if k not in existing_guids}
NewGuids(guids, existing_guids) == Filter(guids, Keys(guids) \ Keys(existing_guids))

\* a variant with the operands of the merge swapped
UpdatedGuidsNewFirst(existing_guids, new_guids) == DictUpdate(new_guids, existing_guids)

\* updated_guids = {**existing_guids, **new_guids}
UpdatedGuids(existing_guids, new_guids) == DictUpdate(existing_guids, new_guids)

\* a variant that saves whether or not anything is new
UpdateGuidsDatabaseAlwaysSaving(guids, file) ==
    LET existing_guids == LoadYaml(file)
        updated_guids == UpdatedGuids(existing_guids, NewGuids(guids, existing_guids))
    IN  [file |-> SaveYaml(updated_guids), saved |-> TRUE, result |-> updated_guids]

\* `if new_guids:` save and return the merge, else return what was loaded
UpdateGuidsDatabase(guids, file) ==
    LET existing_guids == LoadYaml(file)
        new_guids == NewGuids(guids, existing_guids)
    IN  IF new_guids # <<>>
        THEN [file |-> SaveYaml(UpdatedGuids(existing_guids, new_guids)),
              saved |-> TRUE,
              result |-> UpdatedGuids(existing_guids, new_guids)]
        ELSE [file |-> file, saved |-> FALSE, result |-> existing_guids]

(***************************************************************************)
(* generate_urls / generate_download_urls.  A URL template and a URL are   *)
(* sequences of text pieces; "{guid}" is the replacement field.            *)
(***************************************************************************)
MacTemplate == <<"/mac/main/arm64/", "{guid}", "/Docker.dmg">>
WinTemplate == <<"/win/main/amd64/", "{guid}", "/Docker%20Desktop%20Installer.exe">>
DebTemplate == <<"/linux/main/amd64/docker-desktop-amd64.deb">>

\* the contents utils/urls.yaml may have
UrlTemplateStores ==
    {<<Item("mac", MacTemplate), Item("win", WinTemplate)>>,
     <<Item("mac", DebTemplate)>>}

\* url.format(guid=n)
Format(url, n) == [i \in DOMAIN url |-> IF url[i] = "{guid}" THEN ToString(n) ELSE url[i]]

\* f"https://desktop.docker.com{url.format(guid=data['guid'])}"
DownloadUrl(url, data) == <<"https://desktop.docker.com">> \o Format(url, data.guid)

\* one URL per template, then the release date under its own key
ResourceMap(url_templates, data) ==
    DictSet([i \in DOMAIN url_templates |->
                Item(url_templates[i].k, DownloadUrl(url_templates[i].v, data))],
            "release_date", <<data.release_date>>)

\* a variant that builds an entry for every version
ToGenerateAll(guids, existing_resources) == Keys(guids)

\* the versions generate_urls builds an entry for
ToGenerate(guids, existing_resources) == Keys(guids) \ Keys(existing_resources)

NewResources(guids, url_templates, existing_resources) ==
    LET todo == Filter(guids, ToGenerate(guids, existing_resources))
    IN  [i \in DOMAIN todo |-> Item(todo[i].k, ResourceMap(url_templates, todo[i].v))]

GenerateUrls(guids, urls_file, resources_file) ==
    LET url_templates == LoadYaml(urls_file)
        existing_resources == LoadYaml(resources_file)
        new_resources == NewResources(guids, url_templates, existing_resources)
    IN  IF new_resources # <<>>
        THEN [file |-> SaveYaml(DictUpdate(existing_resources, new_resources)),
              saved |-> TRUE,
              result |-> DictUpdate(existing_resources, new_resources)]
        ELSE [file |-> resources_file, saved |-> FALSE, result |-> existing_resources]

\* docker_release_scraper.py: every version, from the templates, nothing stored
GenerateDownloadUrls(guids, urls_file) ==
    NewResources(guids, LoadYaml(urls_file), <<>>)

(***************************************************************************)
(* verify_urls / filter_valid_urls.  Every HEAD request gets its own       *)
(* answer: a status code, or a raised transport error.  status maps a      *)
(* request, named by the version and resource type it is sent for, to the  *)
(* final status code of its response.                                      *)
(***************************************************************************)
StatusCodes == {200, 404}

\* the resource types of an entry that name a URL
UrlTypes(data) == Keys(data) \ {"release_date"}

\* the requests a pass over `resources` sends: one per URL of every version
Requests(resources) ==
    UNION {{<<resources[i].k, t>> : t \in UrlTypes(resources[i].v)} : i \in DOMAIN resources}

\* requests.head(url, allow_redirects=True).status_code == 200
Available(status, version, type_) == status[<<version, type_>>] = 200

ValidUrls(version, data, status) ==
    Filter(data, {t \in UrlTypes(data) : Available(status, version, t)})

RECURSIVE VerifiedResources(_, _)
\* the loop of verify_urls: a version is stored when valid_urls is not empty
VerifiedResources(resources, status) ==
    IF resources = <<>> THEN <<>>
    ELSE LET version == Head(resources).k
             data == Head(resources).v
             valid_urls == ValidUrls(version, data, status)
         IN  (IF valid_urls # <<>>
              THEN <<Item(version, DictSet(valid_urls, "release_date", Get(data, "release_date")))>>
              ELSE <<>>) \o VerifiedResources(Tail(resources), status)

\* docker_release_scraper.py: the condition of the comprehension probes the URLs
\* of a version (first), its value expression probes them again (second)
AnyAvailable(version, data, first) ==
    \E t \in UrlTypes(data) : Available(first, version, t)

RECURSIVE FilterValidUrls(_, _, _)
FilterValidUrls(resources, first, second) ==
    IF resources = <<>> THEN <<>>
    ELSE LET version == Head(resources).k
             data == Head(resources).v
         IN  (IF AnyAvailable(version, data, first)
              THEN <<Item(version, DictSet(ValidUrls(version, data, second),
                                           "release_date", Get(data, "release_date")))>>
              ELSE <<>>) \o FilterValidUrls(Tail(resources), first, second)

\* the requests any() sends for one version: it stops at the first available URL
AnyRequests(version, data, first) ==
    LET sent == {i \in DOMAIN data :
                    /\ data[i].k # "release_date"
                    /\ \A j \in 1..(i - 1) :
                          data[j].k # "release_date" => ~Available(first, version, data[j].k)}
    IN  {<<version, data[i].k>> : i \in sent}

\* what was sent and answered, as (version, type, status code) records
Answers(requests, status) ==
    {[version |-> r[1], type_ |-> r[2], status_code |-> status[r]] : r \in requests}

ScraperAnswers(resources, first, second) ==
    UNION {Answers(AnyRequests(resources[i].k, resources[i].v, first), first)
           \cup (IF AnyAvailable(resources[i].k, resources[i].v, first)
                 THEN Answers(Requests(<<resources[i]>>), second) ELSE {})
           : i \in DOMAIN resources}

(***************************************************************************)
(* The copies of the scrape and of the update in docker_release_scraper.py *)
(***************************************************************************)
FetchAvailableGuids(content) == Dict(Reversed(GuidList(content)))

ScraperResults ==
    {[raised |-> ScrapeRaises(c),
      guids |-> IF ScrapeRaises(c) THEN <<>> ELSE FetchAvailableGuids(c)] : c \in Pages}

UpdateGuidDatabase(guids, file) ==
    LET existing_guids == LoadYaml(file)
        new_guids == Filter(guids, Keys(guids) \ Keys(existing_guids))
        updated_guids == DictUpdate(existing_guids, new_guids)
    IN  IF new_guids # <<>>
        THEN [file |-> SaveYaml(updated_guids), saved |-> TRUE, result |-> updated_guids]
        ELSE [file |-> file, saved |-> FALSE, result |-> existing_guids]

(***************************************************************************)
(* State.  The four files; where the running script stands (pc), which     *)
(* script it is and its command-line flags; the locals `guids` and         *)
(* `resources` of main; and what the latest step did: the file it wrote,   *)
(* how it ended, what its GET of the release notes fetched and what its    *)
(* HEAD requests were answered.  `scrape` is the argument and result of    *)
(* one call of the extraction on its own.                                  *)
(***************************************************************************)
VARIABLES guids_yaml, urls_yaml, resources_yaml, docker_desktop_yaml,
          pc, script, args, guids, resources,
          wrote, outcome, fetch, probes, scrape

vars == <<guids_yaml, urls_yaml, resources_yaml, docker_desktop_yaml,
          pc, script, args, guids, resources,
          wrote, outcome, fetch, probes, scrape>>

Flags == [update : BOOLEAN, generate : BOOLEAN, verify : BOOLEAN]

NoFlags == [update |-> FALSE, generate |-> FALSE, verify |-> FALSE]

\* the status codes the GET of the release notes may end with
GetStatusCodes == {200, 503}

NoFetch ==
    [sent |-> FALSE, error |-> FALSE, status_code |-> 0, raised |-> FALSE, guids |-> <<>>]

NoScrape == [content |-> <<>>, state |-> "none", by |-> "none", guids |-> <<>>]

Init ==
    /\ guids_yaml = NoFile
    /\ urls_yaml \in {SaveYaml(u) : u \in UrlTemplateStores}
    /\ resources_yaml = NoFile
    /\ docker_desktop_yaml = NoFile
    /\ pc = "idle"
    /\ script = "none"
    /\ args = NoFlags
    /\ guids = <<>>
    /\ resources = <<>>
    /\ wrote = "nothing"
    /\ outcome = "none"
    /\ fetch = NoFetch
    /\ probes = {}
    /\ scrape = NoScrape

\* what main does after the update, and after the generation
AfterUpdate(flags) ==
    IF flags.generate THEN "generate" ELSE IF flags.verify THEN "verify" ELSE "idle"

AfterGenerate(flags) == IF flags.verify THEN "verify" ELSE "idle"

\* the step returns and main goes on; after its last step the process exits and
\* its locals are gone
Goes(next, guids_, resources_) ==
    /\ pc' = next
    /\ outcome' = IF next = "idle" THEN "returned" ELSE "running"
    /\ guids' = IF next = "idle" THEN <<>> ELSE guids_
    /\ resources' = IF next = "idle" THEN <<>> ELSE resources_

\* an exception nobody catches ends the process
Raises(exception) ==
    /\ pc' = "idle"
    /\ outcome' = exception
    /\ guids' = <<>>
    /\ resources' = <<>>

\* docker_guids.py, main up to `resources = {}`
Main(flags) ==
    /\ pc = "idle"
    /\ script' = "docker_guids"
    /\ args' = flags
    /\ wrote' = "nothing"
    /\ fetch' = NoFetch
    /\ probes' = {}
    /\ IF flags.update THEN Goes("update", LoadYaml(guids_yaml), <<>>)
       ELSE IF LoadYaml(guids_yaml) = <<>>
            THEN /\ pc' = "idle"
                 /\ outcome' = "returned early"
                 /\ guids' = <<>>
                 /\ resources' = <<>>
            ELSE Goes(AfterUpdate(flags), LoadYaml(guids_yaml), <<>>)
    /\ UNCHANGED <<guids_yaml, urls_yaml, resources_yaml, docker_desktop_yaml, scrape>>

\* docker_guids.py, `guids = update_guids_database()`
UpdateGuids ==
    /\ pc = "update"
    /\ script = "docker_guids"
    /\ \/ /\ fetch' = [NoFetch EXCEPT !.sent = TRUE, !.error = TRUE]
          /\ Raises("requests.get raised")
          /\ wrote' = "nothing"
          /\ UNCHANGED guids_yaml
       \/ \E code \in GetStatusCodes, s \in ScrapeResults :
            /\ fetch' = [sent |-> TRUE, error |-> FALSE, status_code |-> code,
                         raised |-> s.raised, guids |-> s.guids]
            /\ IF s.raised
               THEN /\ Raises("AttributeError")
                    /\ wrote' = "nothing"
                    /\ UNCHANGED guids_yaml
               ELSE LET r == UpdateGuidsDatabase(s.guids, guids_yaml)
                    IN  /\ guids_yaml' = r.file
                        /\ wrote' = IF r.saved THEN GuidsPath ELSE "nothing"
                        /\ Goes(AfterUpdate(args), r.result, resources)
    /\ probes' = {}
    /\ UNCHANGED <<urls_yaml, resources_yaml, docker_desktop_yaml, script, args, scrape>>

\* docker_guids.py, `resources = generate_urls(guids)`
Generate ==
    /\ pc = "generate"
    /\ script = "docker_guids"
    /\ LET r == GenerateUrls(guids, urls_yaml, resources_yaml)
       IN  /\ resources_yaml' = r.file
           /\ wrote' = IF r.saved THEN ResourcesPath ELSE "nothing"
           /\ Goes(AfterGenerate(args), guids, r.result)
    /\ fetch' = NoFetch
    /\ probes' = {}
    /\ UNCHANGED <<guids_yaml, urls_yaml, docker_desktop_yaml, script, args, scrape>>

\* the resources main hands to verify_urls
ToVerify == IF resources = <<>> THEN LoadYaml(resources_yaml) ELSE resources

\* a variant that merges what it verified into the file it finds
VerifyMerging ==
    /\ pc = "verify"
    /\ script = "docker_guids"
    /\ \/ /\ Requests(ToVerify) # {}
          /\ Raises("requests.head raised")
          /\ wrote' = "nothing"
          /\ probes' = {}
          /\ UNCHANGED docker_desktop_yaml
       \/ \E status \in [Requests(ToVerify) -> StatusCodes] :
            /\ docker_desktop_yaml' =
                  SaveYaml(DictUpdate(LoadYaml(docker_desktop_yaml),
                                      VerifiedResources(ToVerify, status)))
            /\ wrote' = DockerDesktopPath
            /\ probes' = Answers(Requests(ToVerify), status)
            /\ Goes("idle", guids, ToVerify)
    /\ fetch' = NoFetch
    /\ UNCHANGED <<guids_yaml, urls_yaml, resources_yaml, script, args, scrape>>

\* docker_guids.py, the `if verify:` block of main
Verify ==
    /\ pc = "verify"
    /\ script = "docker_guids"
    /\ \/ /\ Requests(ToVerify) # {}
          /\ Raises("requests.head raised")
          /\ wrote' = "nothing"
          /\ probes' = {}
          /\ UNCHANGED docker_desktop_yaml
       \/ \E status \in [Requests(ToVerify) -> StatusCodes] :
            /\ docker_desktop_yaml' = SaveYaml(VerifiedResources(ToVerify, status))
            /\ wrote' = DockerDesktopPath
            /\ probes' = Answers(Requests(ToVerify), status)
            /\ Goes("idle", guids, ToVerify)
    /\ fetch' = NoFetch
    /\ UNCHANGED <<guids_yaml, urls_yaml, resources_yaml, script, args, scrape>>

\* docker_release_scraper.py, main before its first call
ScraperMain ==
    /\ pc = "idle"
    /\ script' = "docker_release_scraper"
    /\ args' = NoFlags
    /\ wrote' = "nothing"
    /\ fetch' = NoFetch
    /\ probes' = {}
    /\ Goes("update", <<>>, <<>>)
    /\ UNCHANGED <<guids_yaml, urls_yaml, resources_yaml, docker_desktop_yaml, scrape>>

\* docker_release_scraper.py, `guids = update_guid_database()`
ScraperUpdate ==
    /\ pc = "update"
    /\ script = "docker_release_scraper"
    /\ \/ /\ fetch' = [NoFetch EXCEPT !.sent = TRUE, !.error = TRUE]
          /\ Raises("requests.get raised")
          /\ wrote' = "nothing"
          /\ UNCHANGED guids_yaml
       \/ \E code \in GetStatusCodes, s \in ScraperResults :
            /\ fetch' = [sent |-> TRUE, error |-> FALSE, status_code |-> code,
                         raised |-> s.raised, guids |-> s.guids]
            /\ IF s.raised
               THEN /\ Raises("AttributeError")
                    /\ wrote' = "nothing"
                    /\ UNCHANGED guids_yaml
               ELSE LET r == UpdateGuidDatabase(s.guids, guids_yaml)
                    IN  /\ guids_yaml' = r.file
                        /\ wrote' = IF r.saved THEN GuidsPath ELSE "nothing"
                        /\ Goes("generate", r.result, resources)
    /\ probes' = {}
    /\ UNCHANGED <<urls_yaml, resources_yaml, docker_desktop_yaml, script, args, scrape>>

\* docker_release_scraper.py, `generated_urls = generate_download_urls(guids)`
ScraperGenerate ==
    /\ pc = "generate"
    /\ script = "docker_release_scraper"
    /\ Goes("verify", guids, GenerateDownloadUrls(guids, urls_yaml))
    /\ wrote' = "nothing"
    /\ fetch' = NoFetch
    /\ probes' = {}
    /\ UNCHANGED <<guids_yaml, urls_yaml, resources_yaml, docker_desktop_yaml,
                   script, args, scrape>>

\* docker_release_scraper.py, `filter_valid_urls(generated_urls)`
ScraperVerify ==
    /\ pc = "verify"
    /\ script = "docker_release_scraper"
    /\ \/ /\ Requests(resources) # {}
          /\ Raises("requests.head raised")
          /\ wrote' = "nothing"
          /\ probes' = {}
          /\ UNCHANGED docker_desktop_yaml
       \/ \E first, second \in [Requests(resources) -> StatusCodes] :
            /\ docker_desktop_yaml' = SaveYaml(FilterValidUrls(resources, first, second))
            /\ wrote' = DockerDesktopPath
            /\ probes' = ScraperAnswers(resources, first, second)
            /\ Goes("idle", guids, resources)
    /\ fetch' = NoFetch
    /\ UNCHANGED <<guids_yaml, urls_yaml, resources_yaml, script, args, scrape>>

\* somebody edits utils/urls.yaml between two runs
EditUrlTemplates ==
    /\ pc = "idle"
    /\ urls_yaml' \in {SaveYaml(u) : u \in UrlTemplateStores} \ {urls_yaml}
    /\ script' = "none"
    /\ args' = NoFlags
    /\ wrote' = "nothing"
    /\ outcome' = "none"
    /\ fetch' = NoFetch
    /\ probes' = {}
    /\ UNCHANGED <<guids_yaml, resources_yaml, docker_desktop_yaml,
                   pc, guids, resources, scrape>>

Next ==
    \/ \E flags \in Flags : Main(flags)
    \/ UpdateGuids
    \/ Generate
    \/ Verify
    \/ ScraperMain
    \/ ScraperUpdate
    \/ ScraperGenerate
    \/ ScraperVerify
    \/ EditUrlTemplates

Spec == Init /\ [][Next]_vars

(***************************************************************************)
(* The extraction on its own: one call of get_available_guids, or of       *)
(* fetch_available_guids, on any page.                                     *)
(***************************************************************************)
InitExtract ==
    /\ guids_yaml = NoFile
    /\ urls_yaml = NoFile
    /\ resources_yaml = NoFile
    /\ docker_desktop_yaml = NoFile
    /\ pc = "idle"
    /\ script = "none"
    /\ args = NoFlags
    /\ guids = <<>>
    /\ resources = <<>>
    /\ wrote = "nothing"
    /\ outcome = "none"
    /\ fetch = NoFetch
    /\ probes = {}
    /\ scrape \in {[content |-> c, state |-> "called", by |-> "none", guids |-> <<>>] : c \in Pages}

Scraped(function, result) ==
    /\ scrape.state = "called"
    /\ scrape' = IF ScrapeRaises(scrape.content)
                 THEN [scrape EXCEPT !.state = "raised", !.by = function]
                 ELSE [scrape EXCEPT !.state = "returned", !.by = function,
                                     !.guids = result]
    /\ UNCHANGED <<guids_yaml, urls_yaml, resources_yaml, docker_desktop_yaml,
                   pc, script, args, guids, resources, wrote, outcome, fetch, probes>>

GetAvailableGuidsCall ==
    Scraped("get_available_guids", GetAvailableGuids(scrape.content))

FetchAvailableGuidsCall ==
    Scraped("fetch_available_guids", FetchAvailableGuids(scrape.content))

NextExtract == GetAvailableGuidsCall \/ FetchAvailableGuidsCall

SpecExtract == InitExtract /\ [][NextExtract]_vars

(***************************************************************************)
(* Properties of the GUID store                                            *)
(***************************************************************************)
GuidStore == LoadYaml(guids_yaml)

IsPrefix(s, t) == Len(s) <= Len(t) /\ \A i \in DOMAIN s : s[i] = t[i]

\* the update step answered by a page the scrape got through
Scrapes == pc = "update" /\ fetch'.sent /\ ~fetch'.error /\ ~fetch'.raised

\* C1: once a version label is in utils/guids.yaml, no step of any run changes
\* or removes its entry, whatever the release notes say about that label
C1_EntriesNeverChange ==
    [][\A k \in Keys(GuidStore) :
          /\ Has(GuidStore', k)
          /\ Get(GuidStore', k) = Get(GuidStore, k)]_vars

\* an update has just scraped a page that gives a stored label another entry and
\* that no longer lists another stored label
C1_Witness ==
    /\ fetch.sent /\ ~fetch.raised /\ ~fetch.error
    /\ \E k \in Keys(GuidStore) :
          Has(fetch.guids, k) /\ Get(fetch.guids, k) # Get(GuidStore, k)
    /\ \E k \in Keys(GuidStore) : ~Has(fetch.guids, k)

\* C5: when every scraped label is already a key of the store, the update
\* returns what it loaded and writes nothing; utils/guids.yaml is written only
\* by an update that scraped a label the store did not have
C5_NoWriteWithoutNewLabel ==
    [][/\ (Scrapes /\ Keys(fetch'.guids) \subseteq Keys(GuidStore))
          => /\ guids_yaml' = guids_yaml
             /\ wrote' # GuidsPath
             /\ pc' # "idle" => guids' = GuidStore
       /\ (wrote' = GuidsPath \/ guids_yaml' # guids_yaml)
          => Scrapes /\ ~(Keys(fetch'.guids) \subseteq Keys(GuidStore))]_vars

\* an update has just scraped labels, all of them stored already, and wrote nothing
C5_Witness ==
    /\ fetch.sent /\ ~fetch.raised /\ ~fetch.error
    /\ fetch.guids # <<>>
    /\ Keys(fetch.guids) \subseteq Keys(GuidStore)
    /\ wrote = "nothing"
    /\ outcome \in {"running", "returned"}

\* C10: a written GUID store is the previous store, in its order, followed by
\* the scraped entries of the labels it did not have, in the order of the
\* scrape; the key sequence before any step is a prefix of the one after it
C10_AppendsInOrder ==
    [][/\ wrote' = GuidsPath
          => GuidStore' = GuidStore \o Filter(fetch'.guids,
                                              Keys(fetch'.guids) \ Keys(GuidStore))
       /\ IsPrefix(KeySeq(GuidStore), KeySeq(GuidStore'))]_vars

\* an update has just appended the label the scrape put first behind a label
\* that was stored before
C10_Witness ==
    /\ wrote = GuidsPath
    /\ Len(GuidStore) = 2
    /\ Len(fetch.guids) = 2
    /\ fetch.guids[1].k = GuidStore[2].k
    /\ fetch.guids[1].v = GuidStore[2].v
    /\ fetch.guids[2].v # GuidStore[1].v

(***************************************************************************)
(* Properties of the generated resources                                   *)
(***************************************************************************)
ResourceStore == LoadYaml(resources_yaml)

VerifiedStore == LoadYaml(docker_desktop_yaml)

\* the resource types of a version that a request answered with `code` was sent for
AnsweredWith(answers, version, codes) ==
    {a.type_ : a \in {b \in answers : b.version = version /\ b.status_code \in codes}}

\* the versions with an available URL, each with its available URLs and its
\* release date
Expected(input, answers) ==
    LET ok(v) == AnsweredWith(answers, v, {200})
        kept == Filter(input, {v \in Keys(input) : ok(v) \cap UrlTypes(Get(input, v)) # {}})
    IN  [i \in DOMAIN kept |->
            Item(kept[i].k, Filter(kept[i].v, ok(kept[i].k) \cup {"release_date"}))]

\* C3, as claimed: every version in DockerDesktop.yaml has a URL besides its
\* release date
C3_NoVersionWithoutUrl ==
    \A i \in DOMAIN VerifiedStore : UrlTypes(VerifiedStore[i].v) # {}

\* what the verification that has just written DockerDesktop.yaml was given
VerifiedInput ==
    IF script = "docker_release_scraper"
    THEN GenerateDownloadUrls(GuidStore, urls_yaml)
    ELSE ResourceStore

\* C4, as claimed: when a verification has written DockerDesktop.yaml, every
\* version in it has exactly the URLs of its input entry whose request was
\* answered 200, unchanged, none whose request was answered otherwise, and
\* the release date of the input entry
C4_ExactlyTheAvailableUrls ==
    wrote = DockerDesktopPath =>
        \A i \in DOMAIN VerifiedStore :
            LET version == VerifiedStore[i].k
                kept == VerifiedStore[i].v
                data == Get(VerifiedInput, version)
            IN  /\ Has(VerifiedInput, version)
                /\ UrlTypes(kept) \subseteq UrlTypes(data)
                /\ \A t \in UrlTypes(kept) : Get(kept, t) = Get(data, t)
                /\ AnsweredWith(probes, version, {200}) \subseteq UrlTypes(kept)
                /\ AnsweredWith(probes, version, StatusCodes \ {200}) \cap UrlTypes(kept) = {}
                /\ Has(kept, "release_date")
                /\ Get(kept, "release_date") = Get(data, "release_date")

C7_RaisingProbeIsNotFatal ==
    outcome = "requests.head raised" => wrote = DockerDesktopPath

\* C8, as claimed: when the GET of the release notes raises or is answered with
\* a status outside 2xx, the run is over, nothing was extracted and no file
\* was written
C8_FailedFetchAborts ==
    (fetch.sent /\ (fetch.error \/ fetch.status_code \notin 200..299))
        => /\ pc = "idle"
           /\ outcome = "requests.get raised"
           /\ fetch.guids = <<>>
           /\ wrote = "nothing"

(***************************************************************************)
(* Properties of the extraction                                            *)
(***************************************************************************)
\* the positions on the page of the sections that yield an entry
QualifyingAt(content) ==
    {i \in DOMAIN content : ~RaisesAttributeError(content[i]) /\ Qualifies(content[i])}

\* the sections that can have supplied the entry
Suppliers(content, entry) ==
    {i \in QualifyingAt(content) :
        content[i].version = entry.k /\ ReleaseEntry(content[i]) = entry.v}

Min(S) == CHOOSE x \in S : \A y \in S : x <= y

Max(S) == CHOOSE x \in S : \A y \in S : x >= y

Occurrences(content, version) == {i \in QualifyingAt(content) : content[i].version = version}

\* C9, as claimed: every entry of the result comes from a section of the page,
\* and of two entries the earlier one comes from the section further down
C9_ReverseOfSupplyingSections ==
    scrape.state = "returned" =>
        /\ \A a \in DOMAIN scrape.guids : Suppliers(scrape.content, scrape.guids[a]) # {}
        /\ \A a, b \in DOMAIN scrape.guids :
              a < b => \E i \in Suppliers(scrape.content, scrape.guids[a]),
                          j \in Suppliers(scrape.content, scrape.guids[b]) : i > j

\* C9, amended: the result has one entry per label of a qualifying section; the
\* labels are in the reverse order of their last qualifying section on the
\* page, and the entry of a label is that of its first qualifying section; a
\* page whose qualifying sections have distinct labels gives them reversed
C9_ReverseOfLastOccurrence ==
    scrape.state = "returned" =>
        LET content == scrape.content
            result == scrape.guids
            at == QualifyingAt(content)
        IN  /\ IsDict(result)
            /\ Keys(result) = {content[i].version : i \in at}
            /\ \A a \in DOMAIN result :
                  result[a].v = ReleaseEntry(content[Min(Occurrences(content, result[a].k))])
            /\ \A a, b \in DOMAIN result :
                  a < b => Max(Occurrences(content, result[a].k))
                             > Max(Occurrences(content, result[b].k))
            /\ (\A i, j \in at : content[i].version = content[j].version => i = j)
                  => \A a \in DOMAIN result :
                        \E i \in at :
                            /\ result[a] = Item(content[i].version, ReleaseEntry(content[i]))
                            /\ Cardinality({j \in at : j > i}) = a - 1

\* the page repeats a label with another identifier around another label
C9_Witness ==
    /\ scrape.state = "returned"
    /\ Len(scrape.guids) = 2
    /\ \E i, j, k \in QualifyingAt(scrape.content) :
          /\ i < j /\ j < k
          /\ scrape.content[i].version = scrape.content[k].version
          /\ scrape.content[i].version # scrape.content[j].version
          /\ ReleaseEntry(scrape.content[i]) # ReleaseEntry(scrape.content[k])

=============================================================================
